---------------------------- MODULE Spec2Model ----------------------------
(***************************************************************************)
(* Model of Client::get_exchange_rate                                      *)
(* (zcash_client_backend/src/tor/http/exchange_rate.rs).                   *)
(*                                                                         *)
(* One request is modelled: the currency lookup, the six venue queries     *)
(* joined by join!, and the synchronous aggregation that follows the join  *)
(* (split, random eviction, median).                                       *)
(*                                                                         *)
(* Decimal values are represented as integers counting halves of the       *)
(* quote tick.  A bid or an ask read from a venue is a whole number of     *)
(* ticks, so `(bid + ask) / Decimal::TWO` is exact, as it is in            *)
(* rust_decimal.  Dec(n) is the representation of n ticks.                 *)
(***************************************************************************)
EXTENDS Integers, Sequences, FiniteSets

\* Number of quote steps a venue may answer with, beyond the lowest one.
MaxStep == 4

Dec(n) == 2 * n

\* The six exchanges of the join!, in the order of its arguments.
Venues == {"Binance", "Coinbase", "GateIo", "Gemini", "KuCoin", "Mexc"}

\* The venue whose result is not passed to split().
HeldOut == "Gemini"

\* The order of the five split() calls.
SplitOrder == <<"Binance", "Coinbase", "GateIo", "KuCoin", "Mexc">>

\* Currency codes a caller may ask for.
Currencies == {"USD", "EUR", "JPY"}

\* Bid/ask pairs a venue may report: mid-prices 98, 100, 102, ... ticks.
Quotes == {[bid |-> Dec(97 + 2 * i), ask |-> Dec(99 + 2 * i)] : i \in 0..MaxStep}

\* The Error a failed query of venue v returns.
ErrorOf(v) == [venue |-> v]

NotStarted == [tag |-> "NotStarted"]
Pending == [tag |-> "Pending"]
Ok(q) == [tag |-> "Ok", data |-> q]
Err(e) == [tag |-> "Err", error |-> e]

\* What a query of venue v can complete with.
Outcomes(v) == {Ok(q) : q \in Quotes} \cup {Err(ErrorOf(v))}

NoResult == [tag |-> "NoResult"]
OkNone == [tag |-> "OkNone"]
OkSome(d) == [tag |-> "OkSome", rate |-> d]
Panic(msg) == [tag |-> "Panic", msg |-> msg]

VARIABLES
    pc,        \* "idle", "join" (suspended in join!), "done" (returned)
    currency,  \* the argument of the request
    res,       \* per venue: the state / Result of its query future
    calls,     \* per venue: number of outbound requests issued
    others,    \* `prices` right after the five split() calls
    errors,    \* `errors` after the five split() calls
    evictIdx,  \* index removed by evict_random (1-based), 0 if none
    prices,    \* `prices` when the function returns
    result     \* the value returned to the caller

vars == <<pc, currency, res, calls, others, errors, evictIdx, prices, result>>

-----------------------------------------------------------------------------
\* Variant of ExchangePair::get that routes every currency to the USD pair.
ExchangePairGetAny(c) == "Usd"

\* ExchangePair::get
ExchangePairGet(c) == IF c = "USD" THEN "Usd" ELSE "None"

\* ExchangeData::price
price(q) == (q.bid + q.ask) \div 2

\* fn split: acc is [s |-> prices, e |-> errors].
split(acc, r) ==
    IF r.tag = "Ok"
    THEN [acc EXCEPT !.s = Append(acc.s, price(r.data))]
    ELSE [acc EXCEPT !.e = Append(acc.e, r.error)]

\* The five split() calls, in source order, on two empty vectors.
SplitAll(r) ==
    split(split(split(split(split([s |-> <<>>, e |-> <<>>],
        r["Binance"]), r["Coinbase"]), r["GateIo"]), r["KuCoin"]), r["Mexc"])

\* Variant of choose that always picks the last index.
chooseLast(s) == IF Len(s) = 0 THEN {0} ELSE {Len(s)}

\* (0..s.len()).choose(rng): the indices it may return, 0 standing for None.
choose(s) == IF Len(s) = 0 THEN {0} ELSE 1..Len(s)

\* Variant of evict_random that removes nothing.
evict_randomNoop(s, index) == s

\* evict_random: s.remove(index) for the chosen index, nothing for None.
evict_random(s, index) ==
    IF index = 0 THEN s
    ELSE SubSeq(s, 1, index - 1) \o SubSeq(s, index + 1, Len(s))

\* Variant of the test below with the parity the other way round.
EvictWhenHeldOutOkEven(len) == len % 2 = 0

\* `prices.len() % 2 != 0` in the branch where Gemini succeeded.
EvictWhenHeldOutOk(len) == len % 2 # 0

\* Variant of the test below that evicts whatever the parity.
EvictWhenHeldOutErrAlways(len) == TRUE

\* `prices.len() % 2 == 0` in the branch where Gemini failed.
EvictWhenHeldOutErr(len) == len % 2 = 0

\* Variant of Sort that leaves the vector as it is.
SortNone(s) == s

\* prices.sort(): the ascending arrangement of s.  Its i-th element is the
\* value x of s with fewer than i elements of s below x and at least i
\* elements of s not above x.
Sort(s) ==
    [i \in 1..Len(s) |->
        CHOOSE x \in {s[j] : j \in DOMAIN s} :
            /\ Cardinality({j \in DOMAIN s : s[j] < x}) < i
            /\ Cardinality({j \in DOMAIN s : s[j] <= x}) >= i]

\* Variant of MedianIndex that takes the last element.
MedianIndexLast(len) == len

\* `prices.len() / 2`, as a 1-based index.
MedianIndex(len) == (len \div 2) + 1

\* Option, as Iterator::next returns it.
None == [tag |-> "None"]
Some(x) == [tag |-> "Some", value |-> x]

\* Variant of FirstError that takes the last recorded error.
LastError(e) == IF e = <<>> THEN None ELSE Some(e[Len(e)])

\* errors.into_iter().next()
FirstError(e) == IF e = <<>> THEN None ELSE Some(Head(e))

\* The final `if prices.is_empty() { .. } else { .. }`, giving the vector
\* as the function leaves it and the value returned.
Finish(p, e) ==
    IF p = <<>>
    THEN [prices |-> p,
          result |-> IF FirstError(e) = None
                     THEN Panic("All requests failed")
                     ELSE Err(FirstError(e).value)]
    ELSE IF Len(p) % 2 = 0
    THEN [prices |-> p, result |-> Panic("assertion failed")]
    ELSE [prices |-> Sort(p), result |-> OkSome(Sort(p)[MedianIndex(Len(p))])]

AllDone == \A v \in Venues : res[v].tag \in {"Ok", "Err"}

-----------------------------------------------------------------------------
Init ==
    /\ pc = "idle"
    /\ currency = "-"
    /\ res = [v \in Venues |-> NotStarted]
    /\ calls = [v \in Venues |-> 0]
    /\ others = <<>>
    /\ errors = <<>>
    /\ evictIdx = 0
    /\ prices = <<>>
    /\ result = NoResult

\* get_exchange_rate(currency), up to its suspension in join!.
Call(c) ==
    /\ pc = "idle"
    /\ currency' = c
    /\ IF ExchangePairGet(c) = "None"
       THEN /\ pc' = "done"
            /\ result' = OkNone
            /\ UNCHANGED <<res, calls>>
       ELSE /\ pc' = "join"
            /\ res' = [v \in Venues |-> Pending]
            /\ calls' = [v \in Venues |-> calls[v] + 1]
            /\ UNCHANGED result
    /\ UNCHANGED <<others, errors, evictIdx, prices>>

\* Variant of QueryComplete in which a failed query is issued again
\* instead of completing.
QueryCompleteRetry(v) ==
    /\ pc = "join"
    /\ res[v] = Pending
    /\ \E o \in Outcomes(v) :
          IF o.tag = "Err"
          THEN /\ calls' = [calls EXCEPT ![v] = @ + 1]
               /\ UNCHANGED res
          ELSE /\ res' = [res EXCEPT ![v] = o]
               /\ UNCHANGED calls
    /\ UNCHANGED <<pc, currency, others, errors, evictIdx, prices, result>>

\* <Venue>::query completes with a ticker or with an Error.
QueryComplete(v) ==
    /\ pc = "join"
    /\ res[v] = Pending
    /\ \E o \in Outcomes(v) : res' = [res EXCEPT ![v] = o]
    /\ UNCHANGED <<pc, currency, calls, others, errors, evictIdx, prices, result>>

\* get_exchange_rate after the join: split, eviction, median.
\* (Each intermediate value is bound by \E over a singleton, which makes
\* TLC compute it once.)
Aggregate ==
    /\ pc = "join"
    /\ AllDone
    /\ \E sp \in {SplitAll(res)}, gemini \in {res[HeldOut]} :
       \E evict \in {IF gemini.tag = "Ok"
                     THEN EvictWhenHeldOutOk(Len(sp.s))
                     ELSE EvictWhenHeldOutErr(Len(sp.s))} :
       \E index \in (IF evict THEN choose(sp.s) ELSE {0}) :
       \E kept \in {IF evict THEN evict_random(sp.s, index) ELSE sp.s} :
       \E final \in {IF gemini.tag = "Ok"
                     THEN Append(kept, price(gemini.data))
                     ELSE kept} :
       \E fin \in {Finish(final, sp.e)} :
          /\ others' = sp.s
          /\ errors' = sp.e
          /\ evictIdx' = index
          /\ prices' = fin.prices
          /\ result' = fin.result
    /\ pc' = "done"
    /\ UNCHANGED <<currency, res, calls>>

Next ==
    \/ \E c \in Currencies : Call(c)
    \/ \E v \in Venues : QueryComplete(v)
    \/ Aggregate

Spec == Init /\ [][Next]_vars

-----------------------------------------------------------------------------
(***************************************************************************)
(* Vocabulary of the properties, stated on the venues' results rather than *)
(* through the operators above.                                            *)
(***************************************************************************)
Returned == pc = "done" /\ currency = "USD"

OkVenues == {v \in Venues : res[v].tag = "Ok"}
NumOk == Cardinality(OkVenues)
HeldOutOk == res[HeldOut].tag = "Ok"

\* Mid-price of a successful venue, from its bid and ask.
MidPrice(v) == (res[v].data.bid + res[v].data.ask) \div 2

\* The successful venues other than the held-out one, in record order.
IsOkVenue(v) == res[v].tag = "Ok"
OthersVenues == SelectSeq(SplitOrder, IsOkVenue)
FailedVenues == SelectSeq(SplitOrder, LAMBDA v : res[v].tag = "Err")

Count(s, x) == Cardinality({i \in DOMAIN s : s[i] = x})
Range(s) == {s[i] : i \in DOMAIN s}
SameBag(s, t) ==
    /\ Len(s) = Len(t)
    /\ \A x \in Range(s) \cup Range(t) : Count(s, x) = Count(t, x)

RemoveAt(s, i) == [j \in 1..(Len(s) - 1) |-> IF j < i THEN s[j] ELSE s[j + 1]]

Evicted == evictIdx # 0

\* The price set the median is taken from, from `others`, the evicted index
\* and the held-out venue's result.
KeptOthers == IF Evicted THEN RemoveAt(others, evictIdx) ELSE others
FinalSet == IF HeldOutOk THEN Append(KeptOthers, MidPrice(HeldOut)) ELSE KeptOthers

\* r is the middle value of s: at most half of s lies below it and at most
\* half above it, and it occurs in s.
IsMiddleOf(r, s) ==
    /\ r \in Range(s)
    /\ Cardinality({i \in DOMAIN s : s[i] < r}) <= Len(s) \div 2
    /\ Cardinality({i \in DOMAIN s : s[i] > r}) <= Len(s) \div 2

Ascending(s) == \A i \in 1..(Len(s) - 1) : s[i] <= s[i + 1]

MinOf(S) == CHOOSE x \in S : \A y \in S : x <= y
MaxOf(S) == CHOOSE x \in S : \A y \in S : x >= y

-----------------------------------------------------------------------------
\* C1: for USD, the request returns Ok(Some(rate)) exactly when at least one
\* of the six queries succeeded and Err exactly when none did; it returns
\* nothing else.
C1_RateIffSomeSuccess ==
    Returned =>
        /\ (result.tag = "OkSome") <=> (OkVenues # {})
        /\ (result.tag = "Err") <=> (OkVenues = {})

\* A single success of a venue that is subject to eviction is returned.
C1_Witness ==
    /\ Returned
    /\ NumOk = 1
    /\ ~HeldOutOk
    /\ result.tag = "OkSome"

\* C2: a currency other than USD yields Ok(None) at once, and no venue
\* query is started for it.
C2_UnsupportedNoCalls ==
    (pc # "idle" /\ currency # "USD") =>
        /\ pc = "done"
        /\ result = OkNone
        /\ \A v \in Venues : calls[v] = 0 /\ res[v] = NotStarted

C2_Witness == pc = "done" /\ currency = "EUR" /\ result = OkNone

\* C3: when all six queries fail the request returns Err with exactly one
\* venue error, the first one recorded (Binance's, the first split), and
\* whenever the final price set is empty the error list is not, so taking
\* its first element does not panic.
C3_AllFailFirstError ==
    /\ (Returned /\ OkVenues = {}) =>
          /\ result.tag = "Err"
          /\ result.error \in {ErrorOf(v) : v \in Venues}
          /\ result.error = errors[1]
          /\ result.error = res[FailedVenues[1]].error
    /\ (Returned /\ prices = <<>>) =>
          /\ errors # <<>>
          /\ result.tag = "Err"

C3_Witness ==
    /\ Returned
    /\ OkVenues = {}
    /\ Len(errors) = 5
    /\ result = Err(ErrorOf("Binance"))

\* C4: a returned rate is the element at index len/2 of the ascending final
\* price set, it is the middle value of that set, and it is the mid-price
\* of a venue that succeeded.
C4_ExactMiddle ==
    (Returned /\ result.tag = "OkSome") =>
        /\ Ascending(prices)
        /\ SameBag(prices, FinalSet)
        /\ result.rate = prices[(Len(prices) \div 2) + 1]
        /\ IsMiddleOf(result.rate, FinalSet)
        /\ \E v \in OkVenues : result.rate = MidPrice(v)

\* Five prices, recorded out of order, with distinct low, middle and high.
C4_Witness ==
    /\ Returned
    /\ result.tag = "OkSome"
    /\ Len(prices) = 5
    /\ ~Ascending(FinalSet)
    /\ prices[1] < prices[3] /\ prices[3] < prices[5]
    /\ result.rate = prices[3]

\* C5: the final price set is empty or of odd size, so the assertion on the
\* non-empty branch never fails.
C5_OddOrEmpty ==
    Returned =>
        /\ prices = <<>> \/ Len(prices) % 2 = 1
        /\ result.tag # "Panic"

C5_Witness ==
    /\ Returned
    /\ Len(others) = 5
    /\ HeldOutOk
    /\ Len(prices) = 5

\* C6 as stated: with the held-out venue successful, an even (non-empty)
\* `others` loses one element before the held-out price is added, and an
\* odd `others` loses none.
C6_EvictWhenEven ==
    (Returned /\ HeldOutOk) =>
        /\ (Len(others) % 2 = 0 /\ Len(others) > 0) =>
              (Evicted /\ Len(prices) = Len(others))
        /\ (Len(others) % 2 = 1) =>
              (~Evicted /\ Len(prices) = Len(others) + 1)

\* C6 amended: with the held-out venue successful, an odd `others` loses
\* one of its elements before the held-out price is added, and an even
\* `others` loses none.
C6_EvictWhenOdd ==
    (Returned /\ HeldOutOk) =>
        /\ (Len(others) % 2 = 1) =>
              /\ evictIdx \in 1..Len(others)
              /\ SameBag(prices, Append(RemoveAt(others, evictIdx), MidPrice(HeldOut)))
        /\ (Len(others) % 2 = 0) =>
              /\ evictIdx = 0
              /\ SameBag(prices, Append(others, MidPrice(HeldOut)))

C6_Witness ==
    /\ Returned
    /\ HeldOutOk
    /\ Len(others) = 3
    /\ evictIdx = 2
    /\ Len(prices) = 3

\* C7: the parity matrix.  With n successful venues other than the held-out
\* one: held-out ok and n odd, one evicted, final size n; held-out ok and n
\* even, none evicted, final size n+1; held-out failed and n even, one
\* evicted if n > 0, final size n-1 (0 for n = 0); held-out failed and n
\* odd, none evicted, final set = others (100, 102, 104 give 102).  An
\* element is evicted exactly when the number of successes is even and
\* positive.
C7_ParityMatrix ==
    Returned =>
        LET n == Len(others) IN
        /\ n = Len(OthersVenues)
        /\ (HeldOutOk /\ n % 2 = 1) => (Evicted /\ Len(prices) = n)
        /\ (HeldOutOk /\ n % 2 = 0) => (~Evicted /\ Len(prices) = n + 1)
        /\ (~HeldOutOk /\ n % 2 = 0) =>
              /\ Evicted <=> n > 0
              /\ Len(prices) = IF n = 0 THEN 0 ELSE n - 1
        /\ (~HeldOutOk /\ n % 2 = 1) => (~Evicted /\ SameBag(prices, others))
        /\ Evicted <=> (NumOk % 2 = 0 /\ NumOk > 0)
        /\ (~HeldOutOk /\ SameBag(others, <<Dec(100), Dec(102), Dec(104)>>)) =>
              result = OkSome(Dec(102))

C7_Witness ==
    /\ Returned
    /\ ~HeldOutOk
    /\ others = <<Dec(104), Dec(100), Dec(102)>>
    /\ ~Evicted
    /\ result = OkSome(Dec(102))

\* C8: an evicted price is one of `others`, contributed by a venue other
\* than Gemini; a successful Gemini's mid-price is in the final price set
\* (once more than among the kept others); and when an eviction is due,
\* every index of `others` can be the one evicted.
C8_HeldOutNeverEvicted ==
    /\ Returned =>
          /\ Len(others) = Len(OthersVenues)
          /\ \A i \in DOMAIN others : others[i] = MidPrice(OthersVenues[i])
          /\ Evicted =>
                /\ evictIdx \in DOMAIN others
                /\ OthersVenues[evictIdx] \in Venues \ {HeldOut}
          /\ SameBag(prices, FinalSet)
          /\ HeldOutOk =>
                Count(prices, MidPrice(HeldOut)) = Count(KeptOthers, MidPrice(HeldOut)) + 1
    /\ (pc = "join" /\ AllDone /\ NumOk % 2 = 0) =>
          \A i \in 1..Len(OthersVenues) : ENABLED (Aggregate /\ evictIdx' = i)

\* Gemini's price differs from all others', the first of five is evicted.
C8_Witness ==
    /\ Returned
    /\ HeldOutOk
    /\ Len(others) = 5
    /\ evictIdx = 1
    /\ MidPrice(HeldOut) \notin Range(others)
    /\ MidPrice(HeldOut) \in Range(prices)

\* C9: each of the six queries is issued exactly once per USD request and
\* never again; while any of them is pending nothing is aggregated or
\* returned, whatever has already succeeded; a result is returned only
\* with all six complete, and it is determined by the six outcomes and the
\* evicted index alone.
C9_FullJoin ==
    /\ \A v \in Venues : calls[v] <= 1
    /\ (pc = "join") =>
          /\ \A v \in Venues : calls[v] = 1 /\ res[v] # NotStarted
          /\ result = NoResult
          /\ (\E v \in Venues : res[v] = Pending) => ~ENABLED Aggregate
    /\ Returned =>
          /\ \A v \in Venues : calls[v] = 1 /\ res[v].tag \in {"Ok", "Err"}
          /\ (result.tag = "OkSome") => IsMiddleOf(result.rate, FinalSet)
          /\ (result.tag = "Err") => result.error = ErrorOf(FailedVenues[1])
          /\ result.tag \in {"OkSome", "Err"}

\* Three successes are in while one venue is still pending: no result yet.
C9_Witness ==
    /\ pc = "join"
    /\ Cardinality({v \in Venues : res[v] = Pending}) = 1
    /\ NumOk >= 3
    /\ result = NoResult
    /\ \A v \in Venues : calls[v] = 1

\* C10: with at least three successes, for every successful venue v the
\* returned rate lies between the least and the greatest mid-price of the
\* successful venues other than v.  With one or two successes the rate is
\* one venue's price, and with two that include Gemini it is Gemini's.
C10_SingleVenueBound ==
    Returned =>
        /\ (NumOk >= 3) =>
              /\ result.tag = "OkSome"
              /\ \A v \in OkVenues :
                    LET rest == {MidPrice(u) : u \in OkVenues \ {v}} IN
                    MinOf(rest) <= result.rate /\ result.rate <= MaxOf(rest)
        /\ (NumOk \in {1, 2}) =>
              /\ result.tag = "OkSome"
              /\ \E v \in OkVenues : result.rate = MidPrice(v)
        /\ (NumOk = 2 /\ HeldOutOk) => result.rate = MidPrice(HeldOut)

\* One venue reports a price above all others' and it is not the result.
C10_Witness ==
    /\ Returned
    /\ NumOk >= 3
    /\ \E v \in OkVenues :
          /\ \A u \in OkVenues \ {v} : MidPrice(u) < MidPrice(v)
          /\ result.tag = "OkSome"
          /\ result.rate < MidPrice(v)

=============================================================================
